---- MODULE Spec2Model ----
(***************************************************************************)
(* PhysicsEngine (src/js/core/PhysicsEngine.js) and the MathUtils helpers  *)
(* it calls (src/unnamed/part_003), as a state machine over the engine's   *)
(* public operations.                                                      *)
(*                                                                         *)
(* JavaScript numbers.  A value is a record [k, n, e]:                     *)
(*   k = "num"   the number n * 10^e, n an integer not divisible by 10     *)
(*               (zero is 0 * 10^0): a decimal floating-point number;      *)
(*   k = "inf"   +Infinity (n = 1) or -Infinity (n = -1);                  *)
(*   k = "nan"   NaN;                                                      *)
(*   k = "undef" undefined (a missing property or array element).          *)
(* Arithmetic is exact as long as the integers involved have at most       *)
(* MaxDigits decimal digits.  Beyond that it rounds toward zero, as        *)
(* binary64 rounds beyond 53 bits: a sum keeps the MaxDigits leading       *)
(* digits, a product and a quotient first cut operands that are too long.  *)
(* The sign of zero is not modelled.                                       *)
(***************************************************************************)
EXTENDS Integers, Sequences, FiniteSets, TLC

\* ------------------------------------------------------------------------
\* Bounds of the model
\* ------------------------------------------------------------------------

\* Significant decimal digits of a number.
MaxDigits == 8

\* Calls made on the engine after its construction.
MaxCalls == 5

\* ------------------------------------------------------------------------
\* Numbers
\* ------------------------------------------------------------------------

NaN == [k |-> "nan", n |-> 0, e |-> 0]

Undef == [k |-> "undef", n |-> 0, e |-> 0]

Zero == [k |-> "num", n |-> 0, e |-> 0]

Inf(s) == [k |-> "inf", n |-> s, e |-> 0]

IsNum(a) == a.k = "num"

\* undefined converts to NaN in arithmetic
IsNaNLike(a) == a.k \in {"nan", "undef"}

AbsInt(i) == IF i < 0 THEN -i ELSE i

SgnInt(i) == IF i < 0 THEN -1 ELSE IF i > 0 THEN 1 ELSE 0

MinInt(i, j) == IF i < j THEN i ELSE j

MaxInt(i, j) == IF i < j THEN j ELSE i

RECURSIVE Pow10(_)
Pow10(i) == IF i <= 0 THEN 1 ELSE 10 * Pow10(i - 1)

Dig(i) ==
    LET
        RECURSIVE DigitsOf(_)
        \* the number of decimal digits of i >= 0
        DigitsOf(j) == IF j < 10 THEN 1 ELSE 1 + DigitsOf(j \div 10)
    IN  DigitsOf(AbsInt(i))

\* i / 10^s rounded toward zero; it is 0 from s = 10 on, i being below 2^31
Cut(i, s) == IF s > 9 THEN 0 ELSE SgnInt(i) * (AbsInt(i) \div Pow10(s))

\* the number n * 10^e, cut to MaxDigits digits
Norm(n, e) ==
    LET
        RECURSIVE Strip(_, _)
        Strip(m, f) ==
            IF m % 10 = 0 THEN Strip(m \div 10, f + 1)
            ELSE [k |-> "num", n |-> m, e |-> f]
    IN  IF n = 0 THEN Zero
        ELSE LET s == MaxInt(0, Dig(n) - MaxDigits) IN Strip(Cut(n, s), e + s)

\* the decimal literal n * 10^e
Lit(n, e) == Norm(n, e)

\* the integer i
Num(i) == Norm(i, 0)

One == Num(1)

Sign(a) == SgnInt(a.n)

Neg(a) == IF a.k \in {"num", "inf"} THEN [a EXCEPT !.n = -a.n] ELSE NaN

Abs(a) == IF a.k \in {"num", "inf"} THEN [a EXCEPT !.n = AbsInt(a.n)] ELSE NaN

\* a number cut to at most p digits
Shorten(a, p) == Norm(Cut(a.n, MaxInt(0, Dig(a.n) - p)), a.e + MaxInt(0, Dig(a.n) - p))

Mul(a, b) ==
    LET
        \* the product of two numbers short enough for it to have MaxDigits digits
        MulShort(x, y) == Norm(x.n * y.n, x.e + y.e)
        \* the product of a, short enough, and b cut to the digits a leaves
        MulCut(x, y) == MulShort(x, Shorten(y, MaxDigits - MinInt(Dig(x.n), MaxDigits - 1)))
    IN  IF IsNaNLike(a) \/ IsNaNLike(b) THEN NaN
        ELSE IF a.k = "inf" \/ b.k = "inf"
             THEN IF Sign(a) * Sign(b) = 0 THEN NaN ELSE Inf(Sign(a) * Sign(b))
        ELSE IF Dig(a.n) + Dig(b.n) <= MaxDigits THEN MulShort(a, b)
        ELSE MulCut(Shorten(a, MaxInt(MaxDigits \div 2, MaxDigits - Dig(b.n))), b)

Div(a, b) ==
    LET
        \* the quotient of a, scaled by 10^s to MaxDigits digits, by b, short enough
        DivShort(x, y, s) ==
            Norm(SgnInt(x.n) * SgnInt(y.n) * ((AbsInt(x.n) * Pow10(s)) \div AbsInt(y.n)),
                 x.e - s - y.e)
    IN  IF IsNaNLike(a) \/ IsNaNLike(b) THEN NaN
        ELSE IF a.k = "inf"
             THEN IF b.k = "inf" THEN NaN
                  ELSE Inf(IF Sign(b) < 0 THEN -Sign(a) ELSE Sign(a))
        ELSE IF b.k = "inf" THEN Zero
        ELSE IF b.n = 0
             THEN IF a.n = 0 THEN NaN ELSE Inf(Sign(a))
        ELSE DivShort(a, Shorten(b, MaxDigits \div 2), MaxInt(0, MaxDigits - Dig(a.n)))

Add(a, b) ==
    LET
        \* a number as an integer multiple of 10^m, rounded toward zero
        Scaled(x, m) == IF x.e >= m THEN x.n * Pow10(x.e - m) ELSE Cut(x.n, m - x.e)
        \* the sum of two numbers as a multiple of 10^m
        AddAt(x, y, m) == Norm(Scaled(x, m) + Scaled(y, m), m)
    IN  IF IsNaNLike(a) \/ IsNaNLike(b) THEN NaN
        ELSE IF a.k = "inf"
             THEN IF b.k = "inf" /\ b.n # a.n THEN NaN ELSE a
        ELSE IF b.k = "inf" THEN b
        ELSE IF a.n = 0 THEN b
        ELSE IF b.n = 0 THEN a
        ELSE AddAt(a, b, MaxInt(MinInt(a.e, b.e),
                                MaxInt(a.e + Dig(a.n), b.e + Dig(b.n)) - MaxDigits))

Sub(a, b) == Add(a, Neg(b))

\* a < b; false when either side is NaN
Lt(a, b) ==
    IF IsNaNLike(a) \/ IsNaNLike(b) THEN FALSE
    ELSE IF a.k = "inf" THEN a.n < 0 /\ ~(b.k = "inf" /\ b.n < 0)
    ELSE IF b.k = "inf" THEN b.n > 0
    ELSE Sign(Sub(a, b)) < 0

Gt(a, b) == Lt(b, a)

\* a <= b; false when either side is NaN
Le(a, b) == ~IsNaNLike(a) /\ ~IsNaNLike(b) /\ ~Lt(b, a)

\* a === 0
IsZero(a) == a.k = "num" /\ a.n = 0

\* Math.max, Math.min
MathMax(a, b) == IF IsNaNLike(a) \/ IsNaNLike(b) THEN NaN ELSE IF Lt(a, b) THEN b ELSE a

MathMin(a, b) == IF IsNaNLike(a) \/ IsNaNLike(b) THEN NaN ELSE IF Lt(b, a) THEN b ELSE a

\* Math.floor of a number, as an integer
MathFloor(a) ==
    IF IsNaNLike(a) THEN NaN
    ELSE IF a.k = "inf" \/ a.e >= 0 THEN a
    ELSE IF -a.e > MaxDigits THEN (IF a.n < 0 THEN Num(-1) ELSE Zero)
    ELSE Num(a.n \div Pow10(-a.e))

Root(a, p) ==
    LET
        \* i^p for p = 2, 3
        IntPow(i, q) == IF q = 2 THEN i * i ELSE i * i * i
        RECURSIVE RootSearch(_, _, _, _)
        \* the largest r in lo..hi-1 with r^p <= n, given lo^p <= n < hi^p
        RootSearch(n, q, lo, hi) ==
            IF hi - lo <= 1 THEN lo
            ELSE IF IntPow((lo + hi) \div 2, q) <= n
                 THEN RootSearch(n, q, (lo + hi) \div 2, hi)
                 ELSE RootSearch(n, q, lo, (lo + hi) \div 2)
        \* the p-th root (p = 2, 3) of a number > 0: the mantissa is brought to an
        \* exponent divisible by p and to as many digits as fit
        RootShort(x, q, s) ==
            Norm(RootSearch(x.n * Pow10(s), q, 0, IF q = 2 THEN 46341 ELSE 1291),
                 (x.e - s) \div q)
        RootRoom(x, q, r) == RootShort(x, q, r + q * (MaxInt(0, MaxDigits - Dig(x.n) - r) \div q))
        RootCut(x, q) == RootRoom(x, q, x.e % q)
    IN  RootCut(Shorten(a, MaxDigits - 2), p)

\* Math.sqrt
MathSqrt(a) ==
    IF IsNaNLike(a) THEN NaN
    ELSE IF a.k = "inf" THEN (IF a.n > 0 THEN a ELSE NaN)
    ELSE IF a.n < 0 THEN NaN
    ELSE IF a.n = 0 THEN Zero
    ELSE Root(a, 2)

\* Math.pow(a, 1/3)
MathCbrt(a) ==
    IF IsNaNLike(a) THEN NaN
    ELSE IF a.k = "inf" THEN (IF a.n > 0 THEN a ELSE NaN)
    ELSE IF a.n < 0 THEN NaN
    ELSE IF a.n = 0 THEN Zero
    ELSE Root(a, 3)

\* ------------------------------------------------------------------------
\* MathUtils (src/unnamed/part_003)
\* ------------------------------------------------------------------------

\* a {x, y, z} object
Vec(x, y, z) == [x |-> x, y |-> y, z |-> z]

ZeroVec == Vec(Zero, Zero, Zero)

UndefVec == Vec(Undef, Undef, Undef)

VecIsNum(v) == IsNum(v.x) /\ IsNum(v.y) /\ IsNum(v.z)

add(v1, v2) == Vec(Add(v1.x, v2.x), Add(v1.y, v2.y), Add(v1.z, v2.z))

subtract(v1, v2) == Vec(Sub(v1.x, v2.x), Sub(v1.y, v2.y), Sub(v1.z, v2.z))

multiply(v, scalar) == Vec(Mul(v.x, scalar), Mul(v.y, scalar), Mul(v.z, scalar))

divide(v, scalar) == Vec(Div(v.x, scalar), Div(v.y, scalar), Div(v.z, scalar))

magnitude(v) == MathSqrt(Add(Add(Mul(v.x, v.x), Mul(v.y, v.y)), Mul(v.z, v.z)))

normalize(v) ==
    LET
        \* normalize, given the magnitude
        NormalizeBy(w, mag) == IF IsZero(mag) THEN ZeroVec ELSE divide(w, mag)
    IN  NormalizeBy(v, magnitude(v))

dot(v1, v2) == Add(Add(Mul(v1.x, v2.x), Mul(v1.y, v2.y)), Mul(v1.z, v2.z))

cross(v1, v2) ==
    Vec(Sub(Mul(v1.y, v2.z), Mul(v1.z, v2.y)),
        Sub(Mul(v1.z, v2.x), Mul(v1.x, v2.z)),
        Sub(Mul(v1.x, v2.y), Mul(v1.y, v2.x)))

distance(v1, v2) ==
    LET
        \* distance, given dx, dy, dz
        DistanceOf(dx, dy, dz) == MathSqrt(Add(Add(Mul(dx, dx), Mul(dy, dy)), Mul(dz, dz)))
    IN  DistanceOf(Sub(v1.x, v2.x), Sub(v1.y, v2.y), Sub(v1.z, v2.z))

kineticEnergy(mass, velocity) ==
    LET
        \* kineticEnergy, given the speed
        KineticOf(m, speed) == Mul(Mul(Mul(Lit(5, -1), m), speed), speed)
    IN  KineticOf(mass, magnitude(velocity))

gravitationalPotentialEnergy(m1, m2, r1, r2) ==
    LET
        \* this.G inside a static method: `this` is the class, and G is assigned
        \* only to instances by the constructor, so the property is missing.
        MathUtilsG == Undef
        \* gravitationalPotentialEnergy, given the distance
        PotentialOf(ma, mb, dist) ==
            IF IsZero(dist) THEN Zero
            ELSE Div(Mul(Mul(Neg(MathUtilsG), ma), mb), dist)
    IN  PotentialOf(m1, m2, distance(r1, r2))

angularMomentum(mass, position, velocity) == cross(position, multiply(velocity, mass))

RECURSIVE SumKinetic(_, _, _)
\* the first loop of totalEnergy, from body i on
SumKinetic(bs, i, acc) ==
    IF i > Len(bs) THEN acc
    ELSE SumKinetic(bs, i + 1, Add(acc, kineticEnergy(bs[i].mass, bs[i].velocity)))

totalEnergy(bs) ==
    LET
        RECURSIVE SumPotential(_, _, _, _)
        \* the second (double) loop of totalEnergy, from the pair (i, j) on
        SumPotential(b, i, j, acc) ==
            IF i > Len(b) THEN acc
            ELSE IF j > Len(b) THEN SumPotential(b, i + 1, i + 2, acc)
            ELSE SumPotential(b, i, j + 1,
                     Add(acc, gravitationalPotentialEnergy(b[i].mass, b[j].mass,
                                                           b[i].position, b[j].position)))
    IN  SumPotential(bs, 1, 2, SumKinetic(bs, 1, Zero))

totalAngularMomentum(bs) ==
    LET
        RECURSIVE SumAngular(_, _, _)
        SumAngular(b, i, acc) ==
            IF i > Len(b) THEN acc
            ELSE SumAngular(b, i + 1,
                     add(acc, angularMomentum(b[i].mass, b[i].position, b[i].velocity)))
    IN  SumAngular(bs, 1, ZeroVec)

\* the clamp without its ceiling
clampFloorOnly(value, min, max) == MathMax(value, min)

clamp(value, min, max) == MathMin(MathMax(value, min), max)

\* the step without the term velocity * dt
verletStepAtRest(position, velocity, acceleration, dt) ==
    add(position, multiply(acceleration, Mul(Mul(Lit(5, -1), dt), dt)))

verletStep(position, velocity, acceleration, dt) ==
    add(position, add(multiply(velocity, dt),
                      multiply(acceleration, Mul(Mul(Lit(5, -1), dt), dt))))

\* A value handed to rk4Step or to the derivative function is a flat array
\* or, once MathUtils.add / multiply have been applied to one, an {x, y, z}
\* object.  t = "arr": the array a;  t = "obj": the object v.
JsArr(a) == [t |-> "arr", a |-> a, v |-> UndefVec]

JsObj(v) == [t |-> "obj", a |-> <<>>, v |-> v]

\* the properties .x, .y, .z of a value: missing on an array
Props(j) == IF j.t = "obj" THEN j.v ELSE UndefVec

\* the element [i] (0-based) of a value: missing on an object and past the end
Elem(j, i) == IF j.t = "arr" /\ i + 1 <= Len(j.a) THEN j.a[i + 1] ELSE Undef

\* ------------------------------------------------------------------------
\* PhysicsEngine (src/js/core/PhysicsEngine.js): fields set by the constructor
\* and never assigned again
\* ------------------------------------------------------------------------

\* this.gravity = 6.67430e-11
gravity == Lit(66743, -15)

\* this.softening = 1e-6
softening == Lit(1, -6)

\* this.hashCellSize = 1000
hashCellSize == Lit(1, 3)

\* this.energyConservation = true
energyConservation == TRUE

\* const restitution = 0.8
restitution == Lit(8, -1)

\* this.maxBodies.  The constructor sets 1000; the model runs the engine
\* with a capacity small enough to be reached.
maxBodies == 3

\* maxTrailLength of a new body.  addBody sets 200; the model runs the
\* engine with a cap small enough to be exceeded.
maxTrailLength == 2

IntegrationMethods == {"rk4", "verlet", "euler"}

\* ------------------------------------------------------------------------
\* Sequences
\* ------------------------------------------------------------------------

\* a sequence written as a function on 1..n, as the tuple of its elements
Tup(f) == f \o <<>>

\* the concatenation of a sequence of sequences
Flatten(ss) ==
    LET
        RECURSIVE FlattenFrom(_, _)
        FlattenFrom(s, i) == IF i > Len(s) THEN <<>> ELSE s[i] \o FlattenFrom(s, i + 1)
    IN  FlattenFrom(Tup(ss), 1)

\* ------------------------------------------------------------------------
\* Spatial hash: a Map from cell key to an array of bodies, kept as the
\* sequence of its entries [key, members] in insertion order.  A member is
\* the index in this.bodies of the body the array element refers to.
\* ------------------------------------------------------------------------

\* `${c}` of a number c: a numeral of the number, "Infinity" or "-Infinity",
\* or "NaN" (also for undefined, which Math.floor made NaN before)
NumToString(c) ==
    IF c.k = "num" THEN [k |-> "numeral", v |-> c]
    ELSE IF c.k = "inf" THEN [k |-> "Infinity", v |-> c]
    ELSE [k |-> "NaN", v |-> NaN]

\* Number(s) of such a string
StringToNum(s) == IF s.k = "NaN" THEN NaN ELSE s.v

\* the key `${x},${y},${z}` as the sequence of its three numerals
getCellKey(position) ==
    << NumToString(MathFloor(Div(position.x, hashCellSize))),
       NumToString(MathFloor(Div(position.y, hashCellSize))),
       NumToString(MathFloor(Div(position.z, hashCellSize))) >>

HashHas(hash, key) == \E c \in 1..Len(hash) : hash[c].key = key

\* this.spatialHash.get(key) || []
HashGet(hash, key) ==
    IF HashHas(hash, key)
    THEN hash[CHOOSE c \in 1..Len(hash) : hash[c].key = key].members
    ELSE <<>>

updateSpatialHash(bs) ==
    LET
        \* this.spatialHash.get(cell).push(body), the cell being a key of the map
        HashPush(hash, cell, i) ==
            [c \in 1..Len(hash) |->
                IF hash[c].key = cell
                THEN [hash[c] EXCEPT !.members = Append(@, i)]
                ELSE hash[c]]
        \* one round of the loop of updateSpatialHash, for body i in the cell
        HashInsert(hash, cell, i) ==
            IF HashHas(hash, cell) THEN Tup(HashPush(hash, cell, i))
            ELSE Tup(HashPush(Append(hash, [key |-> cell, members |-> <<>>]), cell, i))
        RECURSIVE HashInsertFrom(_, _, _)
        \* the loop of updateSpatialHash from body i on
        HashInsertFrom(b, i, hash) ==
            IF i > Len(b) THEN hash
            ELSE HashInsertFrom(b, i + 1, HashInsert(hash, getCellKey(b[i].position), i))
    IN  HashInsertFrom(bs, 1, <<>>)

\* Array.from(this.spatialHash.keys())
getNearbyCells(hash) == Tup([c \in 1..Len(hash) |-> hash[c].key])

\* the offsets within the plane dx = 0 only
NeighborOffsetsInPlane ==
    << <<0, -1, -1>>, <<0, -1, 0>>, <<0, -1, 1>>, <<0, 0, -1>>,
       <<0, 0, 1>>, <<0, 1, -1>>, <<0, 1, 0>>, <<0, 1, 1>> >>

\* (dx, dy, dz) in the order of the three nested loops, the centre skipped
NeighborOffsets ==
    LET
        IsOffset(o) == o # <<0, 0, 0>>
    IN  SelectSeq([i \in 1..27 |-> << ((i - 1) \div 9) - 1,
                                      (((i - 1) \div 3) % 3) - 1,
                                      ((i - 1) % 3) - 1 >>], IsOffset)

getNeighboringCells(cell) ==
    LET x == StringToNum(cell[1])
        y == StringToNum(cell[2])
        z == StringToNum(cell[3])
    IN  Tup([i \in 1..Len(NeighborOffsets) |->
            << NumToString(Add(x, Num(NeighborOffsets[i][1]))),
               NumToString(Add(y, Num(NeighborOffsets[i][2]))),
               NumToString(Add(z, Num(NeighborOffsets[i][3]))) >>])

\* ------------------------------------------------------------------------
\* Forces
\* ------------------------------------------------------------------------

calculateRadius(mass) == Mul(MathCbrt(mass), Lit(1, -1))

\* what calculateForceBetween computes from the positions and masses of
\* the bodies at indices i and j (possibly the same body):
\*   skip: the early return; d1, d2: the vectors added to the accelerations
ForceOf(m1, m2, dist, skip, force) ==
    [skip |-> skip,
     d1 |-> divide(force, m1),
     d2 |-> multiply(force, Div(Num(-1), m2))]

\* ForceAt without the early return
ForceAtUnguarded(m1, m2, r, dist) ==
    ForceOf(m1, m2, dist, FALSE,
            multiply(normalize(r),
                     Div(Mul(Mul(gravity, m1), m2),
                         Add(Mul(dist, dist), Mul(softening, softening)))))

\* forceMagnitude, forceDirection and force, given r and distance
ForceAt(m1, m2, r, dist) ==
    ForceOf(m1, m2, dist, Lt(dist, softening),
            multiply(normalize(r),
                     Div(Mul(Mul(gravity, m1), m2),
                         Add(Mul(dist, dist), Mul(softening, softening)))))

PairForce(bs, i, j) ==
    LET
        \* distance, given r
        ForceAlong(m1, m2, r) == ForceAt(m1, m2, r, magnitude(r))
    IN  ForceAlong(bs[i].mass, bs[j].mass, subtract(bs[j].position, bs[i].position))

\* the assignments of calculateForceBetween, given what it computed
\* acc = [bodies, n, skipped]: the bodies, stats.forceCalculations and the
\* number of calls that took the early return
ApplyPairForce(acc, i, j, f) ==
    IF f.skip THEN [acc EXCEPT !.skipped = @ + 1]
    ELSE [bodies |-> [[acc.bodies EXCEPT ![i].acceleration = add(@, f.d1)]
                         EXCEPT ![j].acceleration = add(@, f.d2)],
          n |-> acc.n + 1,
          skipped |-> acc.skipped]

\* calculateForceBetween on the bodies at indices i and j, on
\* acc = [bodies, n, skipped]
calculateForceBetween(acc, i, j) ==
    ApplyPairForce(acc, i, j, PairForce(acc.bodies, i, j))

\* the calls calculateForceBetween(i, j) that calculateForces makes for one
\* cell, in order: those of the loop within the cell, then those of the loop
\* over each neighboring cell
CellPairs(hash, cell) ==
    LET
        \* the pairs (i, j), i before j, of one bucket, in the order of the double loop
        IntraPairs(m) ==
            Flatten([a \in 1..Len(m) |-> [b \in 1..(Len(m) - a) |-> <<m[a], m[a + b]>>]])
        \* the pairs of a bucket with another bucket, in the order of the double loop
        CrossPairs(m1, m2) ==
            Flatten([a \in 1..Len(m1) |-> [b \in 1..Len(m2) |-> <<m1[a], m2[b]>>]])
    IN  LET bodiesInCell == HashGet(hash, cell)
            neighbors == getNeighboringCells(cell)
        IN  << IntraPairs(bodiesInCell) >>
            \o Tup([k \in 1..Len(neighbors) |->
                   CrossPairs(bodiesInCell, HashGet(hash, neighbors[k]))])

\* every call calculateForceBetween(i, j) that calculateForces makes, in
\* order, loop by loop
ForcePairs(hash) ==
    LET cells == getNearbyCells(hash)
    IN  Flatten([c \in 1..Len(cells) |-> CellPairs(hash, cells[c])])

RECURSIVE ApplyPairs(_, _, _, _)
\* the calls of one loop from the k-th on.  Positions and masses do not
\* change during calculateForces, so table[i][j], computed before the loop,
\* is what the call on (i, j) computes.
ApplyPairs(acc, pairs, k, table) ==
    IF k > Len(pairs) THEN acc
    ELSE ApplyPairs(ApplyPairForce(acc, pairs[k][1], pairs[k][2],
                                   table[pairs[k][1]][pairs[k][2]]),
                    pairs, k + 1, table)

RECURSIVE ApplyLoops(_, _, _, _)
\* the loops of calculateForces from the c-th on
ApplyLoops(acc, loops, c, table) ==
    IF c > Len(loops) THEN acc
    ELSE IF acc.n >= 0
         THEN ApplyLoops(ApplyPairs(acc, loops[c], 1, table), loops, c + 1, table)
         ELSE acc

\* what calculateForceBetween computes for every pair of indices
ForceTable(bs) ==
    Tup([i \in 1..Len(bs) |-> Tup([j \in 1..Len(bs) |-> PairForce(bs, i, j)])])

\* the loops of calculateForces on the bodies with accelerations reset
ForcesOn(cleared, hash) ==
    ApplyLoops([bodies |-> cleared, n |-> 0, skipped |-> 0],
               ForcePairs(hash), 1, ForceTable(cleared))

\* the bodies and the count stored; eng.skips counts the calls of
\* calculateForceBetween that took the early return
WithForces(eng, r) ==
    [eng EXCEPT !.bodies = r.bodies, !.stats.forceCalculations = r.n,
                !.skips = @ + r.skipped]

\* calculateForces on an engine [bodies, spatialHash, stats, ...]
calculateForces(eng) ==
    LET
        \* the accelerations reset
        ClearAccelerations(bs) ==
            Tup([i \in 1..Len(bs) |-> [bs[i] EXCEPT !.acceleration = ZeroVec]])
    IN  WithForces(eng, ForcesOn(ClearAccelerations(eng.bodies), eng.spatialHash))

\* ------------------------------------------------------------------------
\* Integration
\* ------------------------------------------------------------------------

getStateVector(bs) ==
    JsArr(Flatten([i \in 1..Len(bs) |->
              << bs[i].position.x, bs[i].position.y, bs[i].position.z,
                 bs[i].velocity.x, bs[i].velocity.y, bs[i].velocity.z >>]))

\* body i (1-based) takes the six elements from index 6 * (i - 1) on
setStateVector(bs, state) ==
    Tup([i \in 1..Len(bs) |->
        [bs[i] EXCEPT
            !.position = Vec(Elem(state, 6 * (i - 1)),
                             Elem(state, 6 * (i - 1) + 1),
                             Elem(state, 6 * (i - 1) + 2)),
            !.velocity = Vec(Elem(state, 6 * (i - 1) + 3),
                             Elem(state, 6 * (i - 1) + 4),
                             Elem(state, 6 * (i - 1) + 5))]])

\* the engine after derivativeFunction and the vector it returns
Derived(eng) ==
    LET
        \* the derivative vector built from the bodies
        DerivativeVector(bs) ==
            JsArr(Flatten([i \in 1..Len(bs) |->
                << bs[i].velocity.x, bs[i].velocity.y, bs[i].velocity.z,
                   bs[i].acceleration.x, bs[i].acceleration.y, bs[i].acceleration.z >>]))
    IN  [eng |-> eng, out |-> DerivativeVector(eng.bodies)]

\* derivativeFunction(t, state) on an engine: [eng |-> the engine after the
\* call, out |-> the returned value]
derivativeFunction(eng, t, state) ==
    Derived(calculateForces([eng EXCEPT !.bodies = setStateVector(eng.bodies, state)]))

\* y + k * h as rk4Step computes it
Advance(y, k, h) == JsObj(add(Props(y), multiply(Props(k), h)))

\* the return statement of rk4Step, after the four calls s1..s4 of f.
\* MathUtils.add takes two arguments: the third one, k4, is dropped.
Rk4Sum(s1, s2, s3, s4, y, h) ==
    [eng |-> s4.eng,
     out |-> JsObj(add(Props(y),
                multiply(add(Props(s1.out),
                             multiply(add(Props(s2.out), Props(s3.out)), Num(2))),
                         Div(h, Num(6)))))]

\* rk4Step from the line of k4 on
Rk4K4(s1, s2, s3, t, y, h) ==
    Rk4Sum(s1, s2, s3,
           derivativeFunction(s3.eng, Add(t, h), Advance(y, s3.out, h)), y, h)

\* rk4Step from the line of k3 on
Rk4K3(s1, s2, t, y, h) ==
    Rk4K4(s1, s2,
          derivativeFunction(s2.eng, Add(t, Div(h, Num(2))),
                             Advance(y, s2.out, Div(h, Num(2)))), t, y, h)

\* rk4Step from the line of k2 on
Rk4K2(s1, t, y, h) ==
    Rk4K3(s1,
          derivativeFunction(s1.eng, Add(t, Div(h, Num(2))),
                             Advance(y, s1.out, Div(h, Num(2)))), t, y, h)

\* MathUtils.rk4Step(f, t, y, h) with f the engine's derivativeFunction, as
\* updateRK4, its only caller, binds it.  The callback reads and writes the
\* engine: the result is [eng |-> the engine after the four calls,
\* out |-> the returned value].
rk4Step(eng, t, y, h) == Rk4K2(derivativeFunction(eng, t, y), t, y, h)

\* this.setStateVector(newState)
StoreState(r) == [r.eng EXCEPT !.bodies = setStateVector(r.eng.bodies, r.out)]

updateRK4(eng, dt) ==
    StoreState(rk4Step(eng, Zero, getStateVector(eng.bodies), dt))

updateVerlet(eng, dt) ==
    [eng EXCEPT !.bodies =
        Tup([i \in 1..Len(eng.bodies) |->
            LET body == eng.bodies[i]
            IN  [body EXCEPT
                    !.position = verletStep(body.position, body.velocity,
                                            body.acceleration, dt),
                    !.velocity = add(body.velocity,
                                     multiply(body.acceleration, dt))]])]

updateEuler(eng, dt) ==
    LET
        \* the body with its new velocity and the position that follows from it
        EulerMove(body, v, h) ==
            [body EXCEPT !.velocity = v, !.position = add(body.position, multiply(v, h))]
    IN  [eng EXCEPT !.bodies =
            Tup([i \in 1..Len(eng.bodies) |->
                EulerMove(eng.bodies[i],
                          add(eng.bodies[i].velocity,
                              multiply(eng.bodies[i].acceleration, dt)), dt)])]

\* the newest points dropped instead of the oldest
PopWhileLonger(trail, max) == SubSeq(trail, 1, MinInt(Len(trail), max))

RECURSIVE ShiftWhileLonger(_, _)
\* while (trail.length > max) trail.shift()
ShiftWhileLonger(trail, max) ==
    IF Len(trail) > max THEN ShiftWhileLonger(Tail(trail), max) ELSE trail

\* a trail point is the copy of the position; its wall-clock `time` stamp
\* is left out
updateTrails(eng) ==
    [eng EXCEPT !.bodies =
        Tup([i \in 1..Len(eng.bodies) |->
            LET body == eng.bodies[i]
            IN  [body EXCEPT !.trail =
                    ShiftWhileLonger(Append(body.trail, body.position),
                                     body.maxTrailLength)]])]

\* ------------------------------------------------------------------------
\* Collisions
\* ------------------------------------------------------------------------

\* the impulse applied to the first body only
resolveCollisionOneSided(bs, i, j) ==
    LET normal == normalize(subtract(bs[j].position, bs[i].position))
        velocityAlongNormal == dot(subtract(bs[j].velocity, bs[i].velocity), normal)
    IN  IF Gt(velocityAlongNormal, Zero) THEN bs
        ELSE [bs EXCEPT ![i].velocity =
                 add(@, multiply(multiply(normal,
                                          Mul(Neg(Add(One, restitution)),
                                              velocityAlongNormal)),
                                 Div(Num(-1), bs[i].mass)))]

resolveCollision(bs, i, j) ==
    LET
        \* the two assignments of resolveCollision
        ApplyImpulse(impulseVector) ==
            [[bs EXCEPT ![i].velocity =
                  add(@, multiply(impulseVector, Div(Num(-1), bs[i].mass)))]
                EXCEPT ![j].velocity =
                  add(@, multiply(impulseVector, Div(One, bs[j].mass)))]
        \* resolveCollision from the test of velocityAlongNormal on
        Bounce(normal, velocityAlongNormal) ==
            IF Gt(velocityAlongNormal, Zero) THEN bs
            ELSE ApplyImpulse(
                     multiply(normal, Mul(Neg(Add(One, restitution)), velocityAlongNormal)))
        \* resolveCollision from relativeVelocity on
        BounceAlong(normal) ==
            Bounce(normal,
                   dot(subtract(bs[j].velocity, bs[i].velocity), normal))
    IN  BounceAlong(normalize(subtract(bs[j].position, bs[i].position)))

RECURSIVE CollideFrom(_, _, _)
\* the double loop of handleCollisions from the pair (i, j) on
\* the body of the if of handleCollisions: after are the bodies
\* resolveCollision leaves.  eng.hits records the two bodies before and
\* after the call.
Collided(eng, i, j, after) ==
    [eng EXCEPT !.bodies = after,
                !.stats.collisions = @ + 1,
                !.hits = Append(@, [i |-> i, j |-> j,
                                    b1 |-> eng.bodies[i], b2 |-> eng.bodies[j],
                                    a1 |-> after[i], a2 |-> after[j]])]

\* one round of the inner loop of handleCollisions
CollidePair(eng, i, j) ==
    IF Lt(distance(eng.bodies[i].position, eng.bodies[j].position),
          Add(eng.bodies[i].radius, eng.bodies[j].radius))
    THEN Collided(eng, i, j, resolveCollision(eng.bodies, i, j))
    ELSE eng

CollideFrom(eng, i, j) ==
    IF i > Len(eng.bodies) THEN eng
    ELSE IF j > Len(eng.bodies) THEN CollideFrom(eng, i + 1, i + 2)
    ELSE CollideFrom(CollidePair(eng, i, j), i, j + 1)

handleCollisions(eng) ==
    CollideFrom([eng EXCEPT !.stats.collisions = 0], 1, 2)

\* ------------------------------------------------------------------------
\* Energy
\* ------------------------------------------------------------------------

\* the drift computed on every tick, the first included
trackEnergyAlways(eng) ==
    [eng EXCEPT !.initialEnergy =
                    IF IsZero(@) THEN totalEnergy(eng.bodies) ELSE @,
                !.stats.energyError =
                    Div(Abs(Sub(totalEnergy(eng.bodies), eng.initialEnergy)),
                        eng.initialEnergy)]

trackEnergyConservation(eng) ==
    LET
        \* trackEnergyConservation from the test of initialEnergy on
        TrackEnergy(e, currentEnergy) ==
            IF IsZero(e.initialEnergy)
            THEN [e EXCEPT !.initialEnergy = currentEnergy]
            ELSE [e EXCEPT !.stats.energyError =
                     Div(Abs(Sub(currentEnergy, e.initialEnergy)), e.initialEnergy)]
    IN  IF ~energyConservation THEN eng
        ELSE TrackEnergy(eng, totalEnergy(eng.bodies))

\* ------------------------------------------------------------------------
\* update(deltaTime) on an engine
\*   [bodies, spatialHash, stats, initialEnergy, timeScale,
\*    integrationMethod, collisionDetection, hits]
\* ------------------------------------------------------------------------

Integrate(eng, dt) ==
    IF eng.integrationMethod = "rk4" THEN updateRK4(eng, dt)
    ELSE IF eng.integrationMethod = "verlet" THEN updateVerlet(eng, dt)
    ELSE IF eng.integrationMethod = "euler" THEN updateEuler(eng, dt)
    ELSE updateRK4(eng, dt)

\* the guard with < for <=
TickSkippedStrict(dt) == Lt(dt, Zero)

\* the guard of update: if (dt <= 0) return
TickSkipped(dt) == Le(dt, Zero)

\* this.stats.integrationSteps++
CountStep(eng) == [eng EXCEPT !.stats.integrationSteps = @ + 1]

\* if (this.collisionDetection) this.handleCollisions()
CollisionsIfEnabled(eng) ==
    IF eng.collisionDetection THEN handleCollisions(eng) ELSE eng

\* this.updateSpatialHash()
Rehash(eng) == [eng EXCEPT !.spatialHash = updateSpatialHash(eng.bodies)]

\* update from the guard on, dt being deltaTime * this.timeScale
Tick(eng, dt) ==
    IF TickSkipped(dt) THEN eng
    ELSE trackEnergyConservation(
             Rehash(CollisionsIfEnabled(updateTrails(Integrate(CountStep(eng), dt)))))

update(eng, deltaTime) == Tick(eng, Mul(deltaTime, eng.timeScale))

\* ------------------------------------------------------------------------
\* The engine as a state machine
\* ------------------------------------------------------------------------

VARIABLES
    bodies,              \* this.bodies
    spatialHash,         \* this.spatialHash
    stats,               \* this.stats
    initialEnergy,       \* this.initialEnergy
    timeScale,           \* this.timeScale
    integrationMethod,   \* this.integrationMethod
    collisionDetection,  \* this.collisionDetection
    last,                \* the last call: its name, arguments and return value
    hist,                \* history: calls made, ticks since the last reset,
                         \* the baseline the last reset cleared, the
                         \* position of the frame when the last callback
                         \* started
    held,                \* the list a caller of getBodies() holds
    app                  \* the CosmicSimulation that drives the engine, if any

vars == << bodies, spatialHash, stats, initialEnergy, timeScale,
           integrationMethod, collisionDetection, last, hist, held, app >>

\* the fields of the engine
engine == << bodies, spatialHash, stats, initialEnergy, timeScale,
             integrationMethod, collisionDetection >>

\* Arguments of the calls

\* (mass, position, velocity) of addBody
BodyInputs ==
    { << One, Vec(Zero, Zero, Zero), Vec(One, Zero, Zero) >>,
      << Num(2), Vec(Lit(1, -1), Zero, Zero), Vec(Num(-1), Zero, Zero) >>,
      << Num(-1), Vec(Lit(5, -7), Zero, Zero), Vec(Zero, Zero, Zero) >> }

\* deltaTime of update, in seconds
DeltaTimes == { Num(-1), Zero, Lit(1, -2) }

\* scale of setTimeScale
TimeScaleInputs == { Num(-5), Num(2), Lit(1, 3) }

\* method of setIntegrationMethod
MethodInputs == IntegrationMethods \cup {"leapfrog"}

\* bodyId of removeBody
IdInputs == 0..(maxBodies - 1)

NoStats == [forceCalculations |-> 0, integrationSteps |-> 0,
            collisions |-> 0, energyError |-> Zero]

Engine ==
    [bodies |-> bodies, spatialHash |-> spatialHash, stats |-> stats,
     initialEnergy |-> initialEnergy, timeScale |-> timeScale,
     integrationMethod |-> integrationMethod,
     collisionDetection |-> collisionDetection, hits |-> <<>>, skips |-> 0]

\* a call: op its name; id, num, name, flag its argument; ok and ret what it
\* returned; hits the collisions it resolved; skips the pairs of bodies its
\* force calculations left alone as too close; evicted the bodies whose
\* trail lost a point
Call(op) ==
    [op |-> op, id |-> -1, num |-> Zero, name |-> "", flag |-> FALSE,
     ok |-> TRUE, ret |-> -1, hits |-> <<>>, skips |-> 0, evicted |-> 0]

\* one more call made, by a caller that uses the engine directly
Called ==
    /\ hist.calls < MaxCalls
    /\ hist' = [hist EXCEPT !.calls = @ + 1]
    /\ UNCHANGED app

\* no CosmicSimulation: the engine is used directly
NoApp ==
    [pc |-> "none", isPaused |-> FALSE, trailLength |-> 0,
     rendererTrailLength |-> 0, deltaTime |-> Zero, start |-> <<>>,
     trailSet |-> FALSE, ticksSinceSet |-> 0, shown |-> <<>>,
     userPaused |-> FALSE]

\* no list handed out yet
NotHeld == [taken |-> FALSE, live |-> FALSE, seen |-> <<>>, shows |-> <<>>]

\* What the list a caller holds shows after a method has worked on
\* this.bodies.  getBodies() returns the array this.bodies itself, with the
\* body objects the engine works on: as long as this.bodies is that array
\* (held.live), the caller's list shows what the engine's does.
Holding ==
    held' = IF held.live THEN [held EXCEPT !.shows = bodies'] ELSE held

\* constructor
Init ==
    /\ bodies = <<>>
    /\ spatialHash = <<>>
    /\ stats = NoStats
    /\ initialEnergy = Zero
    /\ timeScale = One
    /\ integrationMethod = "rk4"
    /\ collisionDetection = FALSE
    /\ last = Call("new")
    /\ hist = [calls |-> 0, ticks |-> 0, afterReset |-> FALSE,
               baselineAtReset |-> Zero, startedAt |-> "none"]
    /\ held = NotHeld
    /\ app = NoApp

\* the body addBody builds; color and type, which nothing reads, are left out
NewBody(bs, mass, position, velocity) ==
    [id |-> Len(bs), mass |-> mass, position |-> position,
     velocity |-> velocity, acceleration |-> ZeroVec,
     radius |-> calculateRadius(mass), trail |-> <<>>,
     maxTrailLength |-> maxTrailLength]

\* the capacity check off by one
AtCapacityStrict(bs) == Len(bs) > maxBodies

\* addBody refuses: the guard of its first statement
AtCapacity(bs) == Len(bs) >= maxBodies

\* addBody(mass, position, velocity); last.ok is FALSE for the return value
\* false, and last.ret is the id returned otherwise
AddBody(mass, position, velocity) ==
    /\ Called
    /\ IF AtCapacity(bodies)
       THEN /\ last' = [Call("addBody") EXCEPT !.ok = FALSE]
            /\ UNCHANGED engine
       ELSE LET body == NewBody(bodies, mass, position, velocity)
            IN  /\ bodies' = Append(bodies, body)
                /\ spatialHash' = updateSpatialHash(bodies')
                /\ last' = [Call("addBody") EXCEPT !.ret = body.id]
                /\ UNCHANGED << stats, initialEnergy, timeScale,
                                integrationMethod, collisionDetection >>
    /\ Holding

\* the last element removed, whatever the index
SpliceLast(bs, index) == SubSeq(bs, 1, Len(bs) - 1)

\* this.bodies.splice(index, 1)
Splice(bs, index) ==
    Tup([k \in 1..(Len(bs) - 1) |-> IF k < index THEN bs[k] ELSE bs[k + 1]])

\* removeBody(bodyId); last.ok is the return value
RemoveBody(bodyId) ==
    LET
        \* this.bodies.findIndex(body => body.id === bodyId), 1-based; 0 for -1
        FindIndex(bs, id) ==
            IF \E i \in 1..Len(bs) : bs[i].id = id
            THEN CHOOSE i \in 1..Len(bs) :
                    /\ bs[i].id = id
                    /\ \A k \in 1..(i - 1) : bs[k].id # id
            ELSE 0
    IN  LET index == FindIndex(bodies, bodyId)
        IN  /\ Called
            /\ IF index # 0
               THEN /\ bodies' = Splice(bodies, index)
                    /\ spatialHash' = updateSpatialHash(bodies')
                    /\ last' = [Call("removeBody") EXCEPT !.id = bodyId]
                    /\ UNCHANGED << stats, initialEnergy, timeScale,
                                    integrationMethod, collisionDetection >>
               ELSE /\ last' = [Call("removeBody") EXCEPT !.id = bodyId, !.ok = FALSE]
                    /\ UNCHANGED engine
            /\ Holding

\* update(deltaTime); last.num is deltaTime
Update(deltaTime) ==
    LET
        \* the number of bodies whose trail, having gained a point during the
        \* steps ticks that led from bs to after, did not get longer
        Evicted(bs, after, steps) ==
            IF steps = 0 THEN 0
            ELSE Cardinality({ i \in 1..Len(bs) :
                                 Len(after[i].trail) <= Len(bs[i].trail) })
    IN  /\ hist.calls < MaxCalls
        /\ \E e \in { update(Engine, deltaTime) } :
            /\ bodies' = e.bodies
            /\ spatialHash' = e.spatialHash
            /\ stats' = e.stats
            /\ initialEnergy' = e.initialEnergy
            /\ last' = [Call("update") EXCEPT
                            !.num = deltaTime, !.hits = e.hits, !.skips = e.skips,
                            !.evicted = Evicted(bodies, e.bodies,
                                                e.stats.integrationSteps
                                                - stats.integrationSteps)]
            /\ hist' = [hist EXCEPT !.calls = @ + 1,
                                    !.ticks = @ + (e.stats.integrationSteps
                                                   - stats.integrationSteps)]
            /\ Holding
            /\ UNCHANGED << timeScale, integrationMethod, collisionDetection, app >>

\* reset() leaving the statistics as they are
ResetKeepingStats ==
    /\ hist.calls < MaxCalls
    /\ bodies' = <<>>
    /\ spatialHash' = <<>>
    /\ initialEnergy' = Zero
    /\ last' = [Call("reset") EXCEPT
                    !.ret = Len(bodies),
                    !.flag = (stats # NoStats \/ initialEnergy # Zero)]
    /\ hist' = [hist EXCEPT !.calls = @ + 1, !.ticks = 0, !.afterReset = TRUE,
                            !.baselineAtReset = initialEnergy]
    /\ held' = [held EXCEPT !.live = FALSE]
    /\ UNCHANGED << stats, timeScale, integrationMethod, collisionDetection, app >>

\* reset(); last.ret is the number of bodies it cleared and last.flag tells
\* that the statistics or the baseline were not already clear.  this.bodies
\* becomes a new array: the one a caller holds stays as it is from then on.
Reset ==
    /\ hist.calls < MaxCalls
    /\ bodies' = <<>>
    /\ spatialHash' = <<>>
    /\ initialEnergy' = Zero
    /\ stats' = NoStats
    /\ last' = [Call("reset") EXCEPT
                    !.ret = Len(bodies),
                    !.flag = (stats # NoStats \/ initialEnergy # Zero)]
    /\ hist' = [hist EXCEPT !.calls = @ + 1, !.ticks = 0, !.afterReset = TRUE,
                            !.baselineAtReset = initialEnergy]
    /\ held' = [held EXCEPT !.live = FALSE]
    /\ UNCHANGED << timeScale, integrationMethod, collisionDetection, app >>

\* every name taken for a method
IsMethodAny(method) == TRUE

\* ['rk4', 'verlet', 'euler'].includes(method)
IsMethod(method) == method \in IntegrationMethods

\* setIntegrationMethod(method); last.name is the argument
SetIntegrationMethod(method) ==
    /\ Called
    /\ integrationMethod' = IF IsMethod(method) THEN method ELSE integrationMethod
    /\ last' = [Call("setIntegrationMethod") EXCEPT !.name = method]
    /\ UNCHANGED << bodies, spatialHash, stats, initialEnergy, timeScale,
                    collisionDetection, held >>

\* setTimeScale(scale); last.num is the argument
SetTimeScale(scale) ==
    /\ Called
    /\ timeScale' = clamp(scale, Lit(1, -2), Lit(1, 2))
    /\ last' = [Call("setTimeScale") EXCEPT !.num = scale]
    /\ UNCHANGED << bodies, spatialHash, stats, initialEnergy,
                    integrationMethod, collisionDetection, held >>

\* setCollisionDetection(enabled); last.flag is the argument
SetCollisionDetection(enabled) ==
    /\ Called
    /\ collisionDetection' = enabled
    /\ last' = [Call("setCollisionDetection") EXCEPT !.flag = enabled]
    /\ UNCHANGED << bodies, spatialHash, stats, initialEnergy, timeScale,
                    integrationMethod, held >>

\* getBodies(): return this.bodies.  One caller, who asks once, is followed.
GetBodies ==
    /\ Called
    /\ ~held.taken
    /\ held' = [taken |-> TRUE, live |-> TRUE, seen |-> bodies, shows |-> bodies]
    /\ last' = [Call("getBodies") EXCEPT !.ret = Len(bodies)]
    /\ UNCHANGED engine

Next ==
    \/ \E b \in BodyInputs : AddBody(b[1], b[2], b[3])
    \/ \E id \in IdInputs : RemoveBody(id)
    \/ \E deltaTime \in DeltaTimes : Update(deltaTime)
    \/ Reset
    \/ \E method \in MethodInputs : SetIntegrationMethod(method)
    \/ \E scale \in TimeScaleInputs : SetTimeScale(scale)
    \/ \E enabled \in BOOLEAN : SetCollisionDetection(enabled)
    \/ GetBodies

Spec == Init /\ [][Next]_vars

\* ------------------------------------------------------------------------
\* The application: one CosmicSimulation driving the engine from the
\* browser's event loop.  app.pc is the position of the running
\* requestAnimationFrame callback, "idle" when no callback is running.
\* ------------------------------------------------------------------------

\* deltaTime of a frame, in seconds: the time since the frame before
FrameTimes == { Zero, Lit(16, -3) }

\* values of the Trail Length slider: lengths below the cap of the bodies
TrailLengthInputs == 1..(maxTrailLength - 1)

\* the body list after addBody(mass, position, velocity)
Added(bs, mass, position, velocity) ==
    IF AtCapacity(bs) THEN bs
    ELSE Append(bs, NewBody(bs, mass, position, velocity))

\* Presets.loadFigure8: three addBody calls
loadFigure8(bs) ==
    Added(Added(Added(bs, One, Vec(Num(-1), Zero, Zero), Vec(Zero, Lit(5, -1), Zero)),
                One, Vec(One, Zero, Zero), Vec(Zero, Neg(Lit(5, -1)), Zero)),
          One, ZeroVec, ZeroVec)

\* Presets.loadPreset('figure8'): physicsEngine.reset(), then loadFigure8
loadPreset ==
    /\ bodies' = loadFigure8(<<>>)
    /\ spatialHash' = updateSpatialHash(bodies')
    /\ stats' = NoStats
    /\ initialEnergy' = Zero
    /\ held' = [held EXCEPT !.live = FALSE]
    /\ UNCHANGED << timeScale, integrationMethod, collisionDetection >>

\* CosmicSimulation after init() and start(): the engine constructed, the
\* preset 'figure8' loaded, the settings of the constructor
AppInit ==
    /\ bodies = loadFigure8(<<>>)
    /\ spatialHash = updateSpatialHash(bodies)
    /\ stats = NoStats
    /\ initialEnergy = Zero
    /\ timeScale = One
    /\ integrationMethod = "rk4"
    /\ collisionDetection = FALSE
    /\ last = Call("loadPreset")
    /\ hist = [calls |-> 0, ticks |-> 0, afterReset |-> TRUE,
               baselineAtReset |-> Zero, startedAt |-> "idle"]
    /\ held = NotHeld
    /\ app = [pc |-> "idle", isPaused |-> FALSE, trailLength |-> 300,
              rendererTrailLength |-> 200, deltaTime |-> Zero, start |-> Engine,
              trailSet |-> FALSE, ticksSinceSet |-> 0, shown |-> <<>>,
     userPaused |-> FALSE]

\* the event loop starts a callback (an event listener or the animation
\* frame) only when no callback is running
Task ==
    /\ app.pc = "idle"
    /\ hist.calls < MaxCalls
    /\ hist' = [hist EXCEPT !.calls = @ + 1, !.startedAt = app.pc]

\* the fields of the engine become those of e
EngineBecomes(e) ==
    /\ bodies' = e.bodies
    /\ spatialHash' = e.spatialHash
    /\ stats' = e.stats
    /\ initialEnergy' = e.initialEnergy
    /\ UNCHANGED << timeScale, integrationMethod, collisionDetection >>
    /\ Holding

\* The positions of animate() with physicsEngine.update(deltaTime) inlined,
\* in the order of the statements; the statements that touch neither the
\* engine nor the info panel are left out.
Phases ==
    << "physics", "trails", "collisions", "rehash", "energy", "panel",
       "render", "idle" >>

\* the info panel updated right after the trails, before update has returned
AfterPhaseEarlyPanel(pc) ==
    IF pc = "trails" THEN "panel"
    ELSE Phases[(CHOOSE k \in 1..(Len(Phases) - 1) : Phases[k] = pc) + 1]

\* the position after pc
AfterPhase(pc) ==
    Phases[(CHOOSE k \in 1..(Len(Phases) - 1) : Phases[k] = pc) + 1]

\* animate(), up to the call of physicsEngine.update: a paused frame goes
\* on to render.  app.start is the engine at the start of the frame.
Animate(deltaTime) ==
    /\ Task
    /\ app' = [app EXCEPT
                  !.pc = IF app.isPaused THEN "render" ELSE "physics",
                  !.deltaTime = deltaTime,
                  !.start = Engine]
    /\ last' = [Call("animate") EXCEPT !.num = deltaTime]
    /\ UNCHANGED << engine, held >>

\* update(deltaTime): the guard, the step count and the integration
PhysicsIntegrate ==
    /\ app.pc = "physics"
    /\ IF TickSkipped(Mul(app.deltaTime, timeScale))
       THEN /\ app' = [app EXCEPT !.pc = "panel"]
            /\ UNCHANGED << engine, held >>
       ELSE /\ \E e \in { Integrate(CountStep(Engine),
                                    Mul(app.deltaTime, timeScale)) } :
                    EngineBecomes(e)
            /\ app' = [app EXCEPT !.pc = AfterPhase("physics")]
    /\ UNCHANGED << last, hist >>

\* update(deltaTime): this.updateTrails()
PhysicsTrails ==
    /\ app.pc = "trails"
    /\ \E e \in { updateTrails(Engine) } : EngineBecomes(e)
    /\ app' = [app EXCEPT !.pc = AfterPhase("trails")]
    /\ UNCHANGED << last, hist >>

\* update(deltaTime): the collision handling, if enabled
PhysicsCollisions ==
    /\ app.pc = "collisions"
    /\ \E e \in { CollisionsIfEnabled(Engine) } : EngineBecomes(e)
    /\ app' = [app EXCEPT !.pc = AfterPhase("collisions")]
    /\ UNCHANGED << last, hist >>

\* update(deltaTime): this.updateSpatialHash()
PhysicsRehash ==
    /\ app.pc = "rehash"
    /\ \E e \in { Rehash(Engine) } : EngineBecomes(e)
    /\ app' = [app EXCEPT !.pc = AfterPhase("rehash")]
    /\ UNCHANGED << last, hist >>

\* update(deltaTime): this.trackEnergyConservation(), and the return
PhysicsEnergy ==
    /\ app.pc = "energy"
    /\ \E e \in { trackEnergyConservation(Engine) } : EngineBecomes(e)
    /\ app' = [app EXCEPT
                  !.pc = AfterPhase("energy"),
                  !.ticksSinceSet = IF app.trailSet THEN @ + 1 ELSE @]
    /\ UNCHANGED << last, hist >>

\* infoPanel.update(): at most once in 100 ms (due) it reads the
\* statistics and the body list and shows them
PanelUpdate(due) ==
    /\ app.pc = "panel"
    /\ app' = [app EXCEPT
                  !.pc = AfterPhase("panel"),
                  !.shown = IF due
                            THEN << Len(bodies), stats.integrationSteps,
                                    totalEnergy(bodies) >>
                            ELSE @]
    /\ UNCHANGED << engine, held, last, hist >>

\* renderer.render() and requestAnimationFrame: the callback ends
Render ==
    /\ app.pc = "render"
    /\ app' = [app EXCEPT !.pc = AfterPhase("render")]
    /\ UNCHANGED << engine, held, last, hist >>

\* CosmicSimulation.reset(), on the Reset button or the key R: the engine
\* reset and the current preset loaded again
PressReset ==
    /\ Task
    /\ loadPreset
    /\ last' = Call("reset")
    /\ UNCHANGED app

\* CosmicSimulation.togglePause(), on the Pause button, Space or Escape
\* app.userPaused (history) tells that the last togglePause() paused
TogglePause ==
    /\ Task
    /\ app' = [app EXCEPT !.isPaused = ~@, !.userPaused = ~app.isPaused]
    /\ last' = [Call("togglePause") EXCEPT !.flag = ~app.isPaused]
    /\ UNCHANGED << engine, held >>

\* the visibilitychange listener: isPaused = document.hidden
VisibilityChange(hidden) ==
    /\ Task
    /\ app' = [app EXCEPT !.isPaused = hidden]
    /\ last' = [Call("visibilitychange") EXCEPT !.flag = hidden]
    /\ UNCHANGED << engine, held >>

\* the Time Scale slider: CosmicSimulation.setTimeScale(value)
SlideTimeScale(value) ==
    /\ Task
    /\ timeScale' = clamp(value, Lit(1, -2), Lit(1, 2))
    /\ last' = [Call("setTimeScale") EXCEPT !.num = value]
    /\ UNCHANGED << bodies, spatialHash, stats, initialEnergy,
                    integrationMethod, collisionDetection, held, app >>

\* the Trail Length slider: CosmicSimulation.setTrailLength(length) stores
\* the length in the settings and in the trail renderer
SlideTrailLength(length) ==
    /\ Task
    /\ app' = [app EXCEPT !.trailLength = length,
                           !.rendererTrailLength = length,
                           !.trailSet = TRUE,
                           !.ticksSinceSet = 0]
    /\ last' = [Call("setTrailLength") EXCEPT !.id = length]
    /\ UNCHANGED << engine, held >>

AppNext ==
    \/ \E deltaTime \in FrameTimes : Animate(deltaTime)
    \/ PhysicsIntegrate
    \/ PhysicsTrails
    \/ PhysicsCollisions
    \/ PhysicsRehash
    \/ PhysicsEnergy
    \/ \E due \in BOOLEAN : PanelUpdate(due)
    \/ Render
    \/ PressReset
    \/ TogglePause
    \/ \E hidden \in BOOLEAN : VisibilityChange(hidden)
    \/ \E value \in TimeScaleInputs : SlideTimeScale(value)
    \/ \E length \in TrailLengthInputs : SlideTrailLength(length)

AppSpec == AppInit /\ [][AppNext]_vars

\* ------------------------------------------------------------------------
\* MathUtils on body lists: totalEnergy and totalAngularMomentum applied to
\* lists of three bodies, in every order
\* ------------------------------------------------------------------------

\* << mass, position, velocity >> of the bodies of the lists: the three bodies
\* of the Figure-8 preset, and bodies at the origin, where no pair has a
\* potential energy, one of them with a kinetic energy of 10^MaxDigits
ListInputs ==
    { << One, Vec(Num(-1), Zero, Zero), Vec(Zero, Lit(5, -1), Zero) >>,
      << One, Vec(One, Zero, Zero), Vec(Zero, Neg(Lit(5, -1)), Zero) >>,
      << One, ZeroVec, ZeroVec >>,
      << Lit(2, MaxDigits), ZeroVec, Vec(One, Zero, Zero) >>,
      << One, ZeroVec, Vec(Num(4), Zero, Zero) >> }

\* the orders in which n bodies can be listed
Orders(n) ==
    { p \in [1..n -> 1..n] : \A i, j \in 1..n : i # j => p[i] # p[j] }

\* the list bs with its bodies in the order p
Relabeled(bs, p) == Tup([i \in 1..Len(bs) |-> bs[p[i]]])

MathInit ==
    LET
        \* the list of the bodies a, b, c, added in this order
        ListOf(a, b, c) ==
            Added(Added(Added(<<>>, a[1], a[2], a[3]), b[1], b[2], b[3]), c[1], c[2], c[3])
    IN  /\ bodies \in { ListOf(a, b, c) : a \in ListInputs, b \in ListInputs, c \in ListInputs }
        /\ spatialHash = <<>>
        /\ stats = NoStats
        /\ initialEnergy = Zero
        /\ timeScale = One
        /\ integrationMethod = "rk4"
        /\ collisionDetection = FALSE
        /\ last = Call("list")
        /\ hist = [calls |-> 0, ticks |-> 0, afterReset |-> FALSE,
                   baselineAtReset |-> Zero, startedAt |-> "none"]
        /\ held = NotHeld
        /\ app = NoApp

\* the same bodies listed in another order, and their total energy taken;
\* last.num is the energy, last.ret the number of bodies
Relabel(i, j) ==
    LET
        \* the list bs with the bodies at i and j exchanged
        Exchanged(bs, a, b) ==
            Tup([k \in 1..Len(bs) |-> IF k = a THEN bs[b] ELSE IF k = b THEN bs[a] ELSE bs[k]])
    IN  /\ i < j
        /\ bodies' = Exchanged(bodies, i, j)
        /\ last' = [Call("totalEnergy") EXCEPT !.num = totalEnergy(bodies'),
                                              !.ret = Len(bodies')]
        /\ UNCHANGED << spatialHash, stats, initialEnergy, timeScale,
                        integrationMethod, collisionDetection, hist, held, app >>

MathNext == \E i, j \in 1..Len(bodies) : Relabel(i, j)

MathSpec == MathInit /\ [][MathNext]_vars

\* ------------------------------------------------------------------------
\* The engine with a scene set up: two bodies added, the method and the
\* collision detection chosen, then used through the same calls
\* ------------------------------------------------------------------------

\* calls made on a scene
SceneCalls == 3

\* << mass, position, velocity >> of the two bodies of a scene: two heavy
\* bodies that overlap, one drifting toward the other; two light bodies that
\* overlap and approach each other; and two bodies of negative mass that move
\* together from the same point, whose total energy is a negative number
SceneInputs ==
    { << << Lit(1, 6), ZeroVec, Vec(Lit(1, -3), Zero, Zero) >>,
         << Lit(1, 6), Vec(One, Zero, Zero), ZeroVec >> >>,
      << << One, ZeroVec, Vec(One, Zero, Zero) >>,
         << Num(2), Vec(Lit(1, -1), Zero, Zero), Vec(Num(-1), Zero, Zero) >> >>,
      << << Num(-1), ZeroVec, Vec(One, Zero, Zero) >>,
         << Num(-1), ZeroVec, Vec(One, Zero, Zero) >> >> }

\* new PhysicsEngine(), addBody twice, setIntegrationMethod(method),
\* setCollisionDetection(enabled); hist.calls counts the calls made from
\* there on
SceneInit ==
    /\ bodies \in { Added(Added(<<>>, s[1][1], s[1][2], s[1][3]),
                          s[2][1], s[2][2], s[2][3]) : s \in SceneInputs }
    /\ spatialHash = updateSpatialHash(bodies)
    /\ stats = NoStats
    /\ initialEnergy = Zero
    /\ timeScale = One
    /\ integrationMethod \in IntegrationMethods
    /\ collisionDetection \in BOOLEAN
    /\ last = [Call("setCollisionDetection") EXCEPT !.flag = collisionDetection]
    /\ hist = [calls |-> 0, ticks |-> 0, afterReset |-> FALSE,
               baselineAtReset |-> Zero, startedAt |-> "none"]
    /\ held = NotHeld
    /\ app = NoApp

\* the calls of Next, while fewer than SceneCalls have been made
SceneNext ==
    \/ \E b \in BodyInputs : hist.calls < SceneCalls /\ AddBody(b[1], b[2], b[3])
    \/ \E id \in IdInputs : hist.calls < SceneCalls /\ RemoveBody(id)
    \/ \E deltaTime \in DeltaTimes : hist.calls < SceneCalls /\ Update(deltaTime)
    \/ hist.calls < SceneCalls /\ Reset
    \/ \E method \in MethodInputs :
          hist.calls < SceneCalls /\ SetIntegrationMethod(method)
    \/ \E scale \in TimeScaleInputs : hist.calls < SceneCalls /\ SetTimeScale(scale)
    \/ \E enabled \in BOOLEAN :
          hist.calls < SceneCalls /\ SetCollisionDetection(enabled)
    \/ hist.calls < SceneCalls /\ GetBodies

SceneSpec == SceneInit /\ [][SceneNext]_vars

\* ------------------------------------------------------------------------
\* Properties
\* ------------------------------------------------------------------------

\* the tick of the call last' was effective: deltaTime * timeScale > 0
EffectiveTick == last'.op = "update" /\ Gt(Mul(last'.num, timeScale), Zero)

\* C1: no two bodies of the live body list have the same id.
C1_UniqueIds ==
    \A i, j \in 1..Len(bodies) : i # j => bodies[i].id # bodies[j].id

\* C2: after update(deltaTime) with deltaTime * timeScale > 0, whatever the
\* method, every component of every body's position and velocity is a
\* defined number, and (no collision handling interfering) position and
\* velocity are those of one step of size deltaTime * timeScale of the
\* selected scheme from the state before the call.
C2_OneIntegrationStep ==
    [][EffectiveTick =>
        LET dt == Mul(last'.num, timeScale)
            stepped == Integrate(Engine, dt).bodies
        IN  \A i \in 1..Len(bodies') :
                /\ VecIsNum(bodies'[i].position)
                /\ VecIsNum(bodies'[i].velocity)
                /\ ~collisionDetection =>
                      /\ bodies'[i].position = stepped[i].position
                      /\ bodies'[i].velocity = stepped[i].velocity]_vars

\* C3: the body count never exceeds maxBodies; addBody called with
\* maxBodies bodies alive returns the failure indicator and changes nothing
\* of the engine.
C3_Capacity ==
    [][/\ Len(bodies') <= maxBodies
       /\ (last'.op = "addBody" /\ Len(bodies) = maxBodies) =>
              (~last'.ok /\ UNCHANGED engine)]_vars

\* a state after addBody was refused on a full engine
C3_Refused ==
    last.op = "addBody" /\ ~last.ok /\ Len(bodies) = maxBodies

\* C4: for two overlapping bodies of positive mass moving toward each other,
\* resolveCollision leaves the relative velocity along the collision normal
\* equal to -0.8 times its value before the call.
C4_Restitution ==
    LET
        \* the relative velocity of two bodies along the normal from the first to
        \* the second
        AlongNormal(b1, b2) ==
            dot(subtract(b2.velocity, b1.velocity),
                normalize(subtract(b2.position, b1.position)))
    IN  \A k \in 1..Len(last.hits) :
            LET h == last.hits[k]
                before == AlongNormal(h.b1, h.b2)
                after == AlongNormal([h.b1 EXCEPT !.velocity = h.a1.velocity],
                                     [h.b2 EXCEPT !.velocity = h.a2.velocity])
            IN  (Lt(before, Zero) /\ Gt(h.b1.mass, Zero) /\ Gt(h.b2.mass, Zero))
                    => after = Mul(Neg(restitution), before)

\* C5: timeScale always lies in [0.01, 100]; setTimeScale(s) stores
\* min(max(s, 0.01), 100) and no other call changes timeScale.
C5_TimeScale ==
    [][LET
        \* min(max(s, 0.01), 100), written out
        Clamped(v) ==
            IF Lt(v, Lit(1, -2)) THEN Lit(1, -2)
            ELSE IF Gt(v, Lit(1, 2)) THEN Lit(1, 2)
            ELSE v
       IN  /\ Le(Lit(1, -2), timeScale') /\ Le(timeScale', Lit(1, 2))
           /\ last'.op = "setTimeScale" => timeScale' = Clamped(last'.num)
           /\ last'.op # "setTimeScale" => timeScale' = timeScale]_vars

\* a state after setTimeScale(1000) stored the ceiling
C5_Ceiling ==
    last.op = "setTimeScale" /\ last.num = Lit(1, 3) /\ timeScale = Lit(1, 2)

\* C6: setIntegrationMethod(m) stores m when m is "rk4", "verlet" or
\* "euler", keeps the method otherwise, and touches nothing else; the method
\* is always one of the three names.
C6_MethodSwitch ==
    [][/\ integrationMethod' \in {"rk4", "verlet", "euler"}
       /\ last'.op = "setIntegrationMethod" =>
            /\ integrationMethod' =
                  IF last'.name \in {"rk4", "verlet", "euler"}
                  THEN last'.name ELSE integrationMethod
            /\ UNCHANGED << bodies, spatialHash, stats, initialEnergy,
                            timeScale, collisionDetection >>]_vars

\* a state after an unrecognised name was ignored by an engine that had
\* left its default method
C6_Ignored ==
    /\ last.op = "setIntegrationMethod"
    /\ last.name = "leapfrog"
    /\ integrationMethod = "verlet"
    /\ Len(bodies) > 0

\* C7: update(deltaTime) with deltaTime * timeScale <= 0 changes nothing of
\* the engine: bodies, spatial hash, baseline and statistics.
C7_NoOpTick ==
    [][(last'.op = "update" /\ Le(Mul(last'.num, timeScale), Zero))
           => UNCHANGED engine]_vars

\* a state after update(0) on an engine that holds a body
C7_ZeroTick ==
    last.op = "update" /\ last.num = Zero /\ Len(bodies) > 0

\* C8: removeBody(id) returns true exactly when a live body has that id;
\* then one body with that id is gone and the others are as before, in the
\* same order; otherwise the body list is unchanged.
C8_RemoveBody ==
    [][last'.op = "removeBody" =>
        /\ last'.ok <=> \E i \in 1..Len(bodies) : bodies[i].id = last'.id
        /\ ~last'.ok => bodies' = bodies
        /\ last'.ok =>
              \E i \in 1..Len(bodies) :
                  /\ bodies[i].id = last'.id
                  /\ Len(bodies') = Len(bodies) - 1
                  /\ \A k \in 1..(i - 1) : bodies'[k] = bodies[k]
                  /\ \A k \in i..Len(bodies') : bodies'[k] = bodies[k + 1]]_vars

\* a state after removeBody removed the first of two different bodies
C8_Removed ==
    /\ last.op = "removeBody" /\ last.ok
    /\ Len(bodies) = 1
    /\ bodies[1].id # last.id
    /\ bodies[1].mass = Num(2)

\* C9: after reset() the body list and the spatial hash are empty, the
\* energy baseline is unset and the four statistics are zero.
C9_Reset ==
    last.op = "reset" =>
        /\ bodies = <<>>
        /\ spatialHash = <<>>
        /\ initialEnergy = Zero
        /\ stats.forceCalculations = 0
        /\ stats.integrationSteps = 0
        /\ stats.collisions = 0
        /\ stats.energyError = Zero

\* a state after reset() cleared bodies, a baseline and statistics
C9_Cleared ==
    last.op = "reset" /\ last.ret > 0 /\ last.flag

\* C10: the first effective update after reset() and any addBody calls
\* records the energy of that tick as the baseline and leaves
\* stats.energyError at 0.
C10_BaselineAfterReset ==
    [][(EffectiveTick /\ hist.afterReset /\ hist.ticks = 0) =>
        /\ initialEnergy' = totalEnergy(bodies')
        /\ stats'.energyError = Zero]_vars

\* a state after the first tick that followed a reset() which cleared a
\* baseline, and addBody: a new baseline is recorded
C10_FirstTick ==
    /\ last.op = "update"
    /\ hist.afterReset /\ hist.ticks = 1
    /\ hist.baselineAtReset # Zero
    /\ Len(bodies) > 0
    /\ initialEnergy # Zero

\* C11: calculateForceBetween on two live bodies at identical positions, or
\* at any separation below the softening length, leaves the acceleration of
\* both as it was, and that is a finite number in every component: nothing
\* is divided by zero, nothing infinite or NaN is produced.
C11_SofteningGuard ==
    LET
        \* two bodies at defined positions whose separation is below the softening
        \* length
        TooClose(b1, b2) ==
            /\ VecIsNum(b1.position) /\ VecIsNum(b2.position)
            /\ Lt(magnitude(subtract(b2.position, b1.position)), softening)
    IN  \A i, j \in 1..Len(bodies) :
            (i # j /\ TooClose(bodies[i], bodies[j])) =>
                LET r == calculateForceBetween(
                             [bodies |-> bodies, n |-> 0, skipped |-> 0], i, j)
                IN  /\ r.bodies[i].acceleration = bodies[i].acceleration
                    /\ r.bodies[j].acceleration = bodies[j].acceleration
                    /\ VecIsNum(r.bodies[i].acceleration)
                    /\ VecIsNum(r.bodies[j].acceleration)

\* a state after a tick whose force calculation met the two bodies added
\* half a softening length apart and left them alone
C11_Skipped ==
    /\ last.op = "update" /\ last.skips > 0
    /\ Len(bodies) = 2
    /\ {bodies[1].mass, bodies[2].mass} = {One, Num(-1)}

\* C12: for live bodies with defined masses, positions and velocities,
\* MathUtils.totalEnergy returns a defined number, the sum over the bodies
\* of m |v|^2 / 2 plus, over the pairs i < j, of -G m_i m_j / d_ij, a pair at
\* distance exactly 0 contributing 0.
C12_TotalEnergy ==
    LET
        \* the gravitational constant G
        GravitationalConstant == Lit(66743, -15)
        \* -G * m1 * m2 / d for a pair at distance d, 0 at distance exactly 0
        PairPotential(m1, m2, dist) ==
            IF IsZero(dist) THEN Zero
            ELSE Div(Mul(Mul(Neg(GravitationalConstant), m1), m2), dist)
        RECURSIVE SumPairPotential(_, _, _, _)
        \* acc plus the potential of every pair (i', j'), i' < j', from (i, j) on,
        \* added in the order of totalEnergy
        SumPairPotential(bs, i, j, acc) ==
            IF i > Len(bs) THEN acc
            ELSE IF j > Len(bs) THEN SumPairPotential(bs, i + 1, i + 2, acc)
            ELSE SumPairPotential(bs, i, j + 1,
                     Add(acc, PairPotential(bs[i].mass, bs[j].mass,
                                            distance(bs[i].position, bs[j].position))))
        \* every body has a defined mass, position and velocity
        AllDefined(bs) ==
            \A i \in 1..Len(bs) :
                IsNum(bs[i].mass) /\ VecIsNum(bs[i].position) /\ VecIsNum(bs[i].velocity)
    IN  AllDefined(bodies) =>
            /\ IsNum(totalEnergy(bodies))
            /\ totalEnergy(bodies) =
                   SumPairPotential(bodies, 1, 2, SumKinetic(bodies, 1, Zero))

\* C13: no trail is ever longer than its cap; an effective tick gives every
\* body the trail it had with the body's position after the tick added at
\* the end, cut down to the cap by dropping points from the front (the
\* oldest).
C13_TrailFifo ==
    [][LET
        \* the last n points of a trail, all of them if there are fewer
        LastPoints(trail, n) ==
            SubSeq(trail, Len(trail) - MinInt(Len(trail), n) + 1, Len(trail))
       IN  /\ \A i \in 1..Len(bodies') :
                  Len(bodies'[i].trail) <= bodies'[i].maxTrailLength
           /\ EffectiveTick =>
                  /\ Len(bodies') = Len(bodies)
                  /\ \A i \in 1..Len(bodies) :
                         bodies'[i].trail =
                            LastPoints(Append(bodies[i].trail, bodies'[i].position),
                                       bodies[i].maxTrailLength)]_vars

\* a state after a tick that dropped the oldest point of a full trail
C13_Evicted ==
    /\ last.op = "update" /\ last.evicted > 0
    /\ \E i \in 1..Len(bodies) : Len(bodies[i].trail) = maxTrailLength

\* C15: the list a caller obtained from getBodies(), and the bodies in it,
\* stay as they were when the caller got them, whatever update, addBody,
\* removeBody or reset call the engine serves afterwards.
C15_Snapshot == held.taken => held.shows = held.seen

\* C14: once the Trail Length slider has been set to a length and a whole
\* tick has run since, no callback finds a body with a trail longer than
\* that length.
C14_TrailLengthControl ==
    (app.trailSet /\ app.ticksSinceSet > 0 /\ app.pc \in {"panel", "render", "idle"})
        => \A i \in 1..Len(bodies) : Len(bodies[i].trail) <= app.trailLength

\* C16: a callback (a frame of the animation loop; the reset, pause,
\* visibility and slider handlers) starts only when no frame is in progress,
\* and within a frame the info panel update and the render call find the
\* engine as the complete update(deltaTime) leaves it, never in between.
C16_NoPartialTick ==
    LET
        \* the fields of the engine are those of e
        EngineIs(e) ==
            /\ bodies = e.bodies
            /\ spatialHash = e.spatialHash
            /\ stats = e.stats
            /\ initialEnergy = e.initialEnergy
            /\ timeScale = e.timeScale
            /\ integrationMethod = e.integrationMethod
            /\ collisionDetection = e.collisionDetection
        \* the engine is what update(deltaTime) makes of the engine the frame
        \* started with, or that engine itself in a paused frame
        WholeTick ==
            EngineIs(IF app.isPaused THEN app.start
                     ELSE update(app.start, app.deltaTime))
    IN  /\ hist.startedAt = "idle"
        /\ app.pc \in {"panel", "render"} => WholeTick

\* the info panel about to read the engine after a tick that stepped it
C16_PanelAfterTick ==
    /\ app.pc = "panel"
    /\ stats.integrationSteps > app.start.stats.integrationSteps
    /\ hist.calls > 1

\* C17: every body of the engine has a mass greater than zero, whatever mass
\* was handed to addBody.
C17_PositiveMass ==
    \A i \in 1..Len(bodies) : Gt(bodies[i].mass, Zero)

\* C18: totalEnergy and the magnitude of totalAngularMomentum of a body list
\* are the same in whatever order the same bodies are listed.
C18_OrderIndependent ==
    LET
        \* totalEnergy and the magnitude of totalAngularMomentum of bs in the order p
        \* are those of bs as listed
        SameInOrder(bs, p) ==
            /\ totalEnergy(Relabeled(bs, p)) = totalEnergy(bs)
            /\ magnitude(totalAngularMomentum(Relabeled(bs, p)))
                 = magnitude(totalAngularMomentum(bs))
    IN  \A p \in Orders(Len(bodies)) : SameInOrder(bodies, p)

\* C19: on every effective tick, with each integration method, the bodies
\* move as they do when their accelerations are first recomputed from their
\* current positions: no acceleration left over from the creation of a body
\* or from an earlier tick is used.
C19_FreshAccelerations ==
    [][LET
        \* the bodies of bs and of cs have the same positions and velocities
        SameMotion(bs, cs) ==
            /\ Len(bs) = Len(cs)
            /\ \A i \in 1..Len(bs) : /\ bs[i].position = cs[i].position
                                      /\ bs[i].velocity = cs[i].velocity
       IN  EffectiveTick =>
              SameMotion(bodies',
                         Tick(calculateForces(Engine), Mul(last'.num, timeScale)).bodies)]_vars

\* C20: rk4Step(f, t, y, h), y being a flat array of n reals, returns the
\* flat array of the n reals y[i] + h/6 * (k1[i] + 2 k2[i] + 2 k3[i] + k4[i])
\* with k1 = f(t, y), k2 = f(t + h/2, y + h/2 k1), k3 = f(t + h/2, y + h/2 k2)
\* and k4 = f(t + h, y + h k3); checked on the calls updateRK4 makes.
C20_Rk4Step ==
    [][LET
        \* the element-wise sum of two flat arrays of the same length
        FlatAdd(y, k) == JsArr(Tup([i \in 1..Len(y.a) |-> Add(Elem(y, i - 1), Elem(k, i - 1))]))
        \* the flat array k with every element multiplied by c
        FlatTimes(k, c) == JsArr(Tup([i \in 1..Len(k.a) |-> Mul(Elem(k, i - 1), c)]))
        \* y + h/6 * (k1 + 2 k2 + 2 k3 + k4), element by element, after the four
        \* calls s1..s4 of f
        ClassicSum(s1, s2, s3, s4, y, h) ==
            [eng |-> s4.eng,
             out |-> FlatAdd(y, FlatTimes(FlatAdd(FlatAdd(s1.out, FlatTimes(s2.out, Num(2))),
                                                  FlatAdd(FlatTimes(s3.out, Num(2)), s4.out)),
                                          Div(h, Num(6))))]
        \* k4 = f(t + h, y + h * k3)
        ClassicK4(s1, s2, s3, t, y, h) ==
            ClassicSum(s1, s2, s3,
                       derivativeFunction(s3.eng, Add(t, h), FlatAdd(y, FlatTimes(s3.out, h))),
                       y, h)
        \* k3 = f(t + h/2, y + h/2 * k2)
        ClassicK3(s1, s2, t, y, h) ==
            ClassicK4(s1, s2,
                      derivativeFunction(s2.eng, Add(t, Div(h, Num(2))),
                                         FlatAdd(y, FlatTimes(s2.out, Div(h, Num(2))))),
                      t, y, h)
        \* k2 = f(t + h/2, y + h/2 * k1)
        ClassicK2(s1, t, y, h) ==
            ClassicK3(s1,
                      derivativeFunction(s1.eng, Add(t, Div(h, Num(2))),
                                         FlatAdd(y, FlatTimes(s1.out, Div(h, Num(2))))),
                      t, y, h)
        \* the classic four-stage step on the flat array y, k1 = f(t, y), with f the
        \* engine's derivativeFunction
        ClassicRk4(eng, t, y, h) == ClassicK2(derivativeFunction(eng, t, y), t, y, h)
        \* the tick of the call last' runs updateRK4
        Rk4Tick == EffectiveTick /\ integrationMethod \notin {"verlet", "euler"}
       IN  Rk4Tick =>
              rk4Step(CountStep(Engine), Zero, getStateVector(bodies),
                      Mul(last'.num, timeScale)).out
                = ClassicRk4(CountStep(Engine), Zero, getStateVector(bodies),
                             Mul(last'.num, timeScale)).out]_vars

\* C21: within one calculateForces call, on the spatial hash as it stands,
\* the force between two different bodies is applied at most once, whether
\* the two are in the same cell or in neighbouring cells.
C21_PairOnce ==
    LET
        \* the calls calculateForceBetween(i, j) of one calculateForces, in order
        calls == Flatten(ForcePairs(spatialHash))
        \* the calls on the bodies i and j, in either order, that get past the
        \* early return
        Applied(i, j) ==
            { k \in 1..Len(calls) :
                /\ {calls[k][1], calls[k][2]} = {i, j}
                /\ ~PairForce(bodies, i, j).skip }
    IN  \A i, j \in 1..Len(bodies) : i < j => Cardinality(Applied(i, j)) <= 1

\* C22: when calculateForces evaluates the pairs, the spatial hash is the one
\* built from the positions the bodies have at that time; stated for the
\* second stage of an rk4 tick, whose positions derivativeFunction has just
\* overwritten.
C22_IndexOfCurrentPositions ==
    [][LET
        \* the engine as the second call of derivativeFunction hands it to
        \* calculateForces: s1 is the first call, y the state vector, h the step
        SecondStage(s1, y, h) ==
            [s1.eng EXCEPT !.bodies =
                setStateVector(s1.eng.bodies, Advance(y, s1.out, Div(h, Num(2))))]
        \* the spatial hash is that of the bodies' positions
        Indexed(e) == e.spatialHash = updateSpatialHash(e.bodies)
       IN  (EffectiveTick /\ integrationMethod \notin {"verlet", "euler"}) =>
               Indexed(SecondStage(derivativeFunction(CountStep(Engine), Zero,
                                                      getStateVector(bodies)),
                                   getStateVector(bodies),
                                   Mul(last'.num, timeScale)))]_vars

\* C23: with the spatial hash built from the current positions, two different
\* bodies at defined positions less than one cell edge apart are in the same
\* cell or in two cells that are neighbours of each other, and calculateForces
\* calls calculateForceBetween on them at least once.
C23_NoFalseNegatives ==
    LET
        calls == Flatten(ForcePairs(spatialHash))
        \* cell d is one of the 26 neighbours of cell c
        Neighbours(c, d) ==
            LET near == getNeighboringCells(c)
            IN  \E k \in 1..Len(near) : near[k] = d
        Near(b1, b2) ==
            /\ VecIsNum(b1.position) /\ VecIsNum(b2.position)
            /\ Lt(distance(b1.position, b2.position), hashCellSize)
        Adjacent(c, d) == c = d \/ (Neighbours(c, d) /\ Neighbours(d, c))
    IN  spatialHash = updateSpatialHash(bodies) =>
            \A i, j \in 1..Len(bodies) :
                (i # j /\ Near(bodies[i], bodies[j])) =>
                    /\ Adjacent(getCellKey(bodies[i].position),
                                getCellKey(bodies[j].position))
                    /\ \E k \in 1..Len(calls) : {calls[k][1], calls[k][2]} = {i, j}

\* a physics tick under way on bodies of which two, less than a cell edge
\* apart, are in different cells
C23_AcrossCells ==
    /\ app.pc = "physics"
    /\ spatialHash = updateSpatialHash(bodies)
    /\ \E i, j \in 1..Len(bodies) :
          /\ VecIsNum(bodies[i].position) /\ VecIsNum(bodies[j].position)
          /\ Lt(distance(bodies[i].position, bodies[j].position), hashCellSize)
          /\ getCellKey(bodies[i].position) # getCellKey(bodies[j].position)

\* C25: the energy baseline is set once per lifetime segment: the first
\* effective tick after construction or reset() stores the energy it computed
\* as the baseline, and every later tick before the next reset() leaves the
\* baseline as it is.
C25_BaselineOnce ==
    [][EffectiveTick =>
        IF hist.ticks = 0
        THEN initialEnergy' = totalEnergy(bodies')
        ELSE initialEnergy' = initialEnergy]_vars

\* C26: each calculateForceBetween call on two different bodies changes their
\* accelerations by equal and opposite forces, m1 * da1 = -(m2 * da2), and
\* changes no other body; after a calculateForces call the mass-weighted sum
\* of all accelerations is the zero vector.  Equal and zero are taken up to
\* the rounding of the arithmetic, one part in a million of the terms.
C26_EqualAndOpposite ==
    LET
        calls == Flatten(ForcePairs(spatialHash))
        from == [bodies |-> bodies, n |-> 0, skipped |-> 0]
        \* x is zero by the measure of size
        Small(x, size) ==
            IsNum(x) /\ IsNum(size) /\ Le(Abs(x), Mul(Lit(1, -6), Abs(size)))
        \* what the call adds to the acceleration of body k, times its mass
        Pushed(r, k) ==
            multiply(subtract(r.bodies[k].acceleration, bodies[k].acceleration),
                     bodies[k].mass)
        Cancel(v, w) ==
            /\ Small(Add(v.x, w.x), v.x)
            /\ Small(Add(v.y, w.y), v.y)
            /\ Small(Add(v.z, w.z), v.z)
        Opposite(r, i, j) ==
            /\ Cancel(Pushed(r, i), Pushed(r, j))
            /\ \A k \in 1..Len(bodies) : k \notin {i, j} => r.bodies[k] = bodies[k]
        RECURSIVE Weighted(_, _, _)
        \* the sum of mass * acceleration, or of its absolute value, over the
        \* first k bodies of bs
        Weighted(bs, k, absolute) ==
            IF k = 0 THEN ZeroVec
            ELSE LET f == multiply(bs[k].acceleration, bs[k].mass)
                 IN  add(Weighted(bs, k - 1, absolute),
                         IF absolute THEN Vec(Abs(f.x), Abs(f.y), Abs(f.z)) ELSE f)
        Balanced(bs) ==
            LET sum == Weighted(bs, Len(bs), FALSE)
                size == Weighted(bs, Len(bs), TRUE)
            IN  Small(sum.x, size.x) /\ Small(sum.y, size.y) /\ Small(sum.z, size.z)
    IN  /\ \A c \in 1..Len(calls) :
            calls[c][1] # calls[c][2] =>
                Opposite(calculateForceBetween(from, calls[c][1], calls[c][2]),
                         calls[c][1], calls[c][2])
        /\ Balanced(calculateForces(Engine).bodies)

C28_PauseKept ==
    app.userPaused =>
        /\ app.isPaused
        /\ app.pc \in {"idle", "render"}

\* C24: the collision count is reset and recomputed on every effective tick:
\* after the tick stats.collisions is the number of overlapping pairs handled
\* in that tick, 0 when collision detection is disabled.
C24_CollisionCount ==
    [][EffectiveTick =>
        /\ stats'.collisions = Len(last'.hits)
        /\ ~collisionDetection => stats'.collisions = 0]_vars

\* C29: stats.energyError is never negative, whatever the sign of the
\* baseline energy.
C29_ErrorNotNegative == ~Lt(stats.energyError, Zero)

====
